---------------------------- MODULE Spec2Model ----------------------------
(***************************************************************************)
(* Model of threepwoods-colly (src/main.go): the classification handlers  *)
(* that checkUrl registers on an asynchronous colly collector, the shared  *)
(* ScanResult they mutate, and the sync.Mutex that guards part of it.      *)
(*                                                                         *)
(* Strings are TLA+ strings handled character by character (Len, SubSeq,   *)
(* \o), so strings.Contains, strings.HasPrefix and the two regular         *)
(* expressions are computed on the text, not assumed.                      *)
(***************************************************************************)
EXTENDS Integers, Sequences, FiniteSets, TLC

(***************************************************************************)
(* Strings                                                                 *)
(***************************************************************************)
CharAt(s, i) == SubSeq(s, i, i)

\* strings.HasPrefix(s, p)
HasPrefix(s, p) == Len(p) <= Len(s) /\ SubSeq(s, 1, Len(p)) = p

\* strings.HasSuffix(s, p)
HasSuffix(s, p) == Len(p) <= Len(s) /\ SubSeq(s, Len(s) - Len(p) + 1, Len(s)) = p

\* strings.Contains(s, sub)
Contains(s, sub) ==
    \E i \in 1..(Len(s) - Len(sub) + 1) : SubSeq(s, i, i + Len(sub) - 1) = sub

\* strings.Index(s[from..], sub) as an absolute 1-based index, 0 when absent
\* (hits is bound as a set element so that it is worked out once)
IndexFrom(s, sub, from) ==
    CHOOSE r \in
        {IF hits = {} THEN 0 ELSE CHOOSE i \in hits : \A j \in hits : i <= j :
           hits \in {{i \in from..(Len(s) - Len(sub) + 1) : SubSeq(s, i, i + Len(sub) - 1) = sub}}} :
        TRUE

Letters ==
    {"a","b","c","d","e","f","g","h","i","j","k","l","m",
     "n","o","p","q","r","s","t","u","v","w","x","y","z",
     "A","B","C","D","E","F","G","H","I","J","K","L","M",
     "N","O","P","Q","R","S","T","U","V","W","X","Y","Z"}

Digits == {"0","1","2","3","4","5","6","7","8","9"}

\* the class [a-zA-Z0-9-_.] of the local-path expression
PathChars == Letters \cup Digits \cup {"-", "_", "."}

\* the complement of \W : [0-9A-Za-z_]
WordChars == Letters \cup Digits \cup {"_"}

\* slices.Contains(list, v)
SliceContains(list, v) == \E i \in 1..Len(list) : list[i] = v

(***************************************************************************)
(* Origin resolver                                                         *)
(***************************************************************************)
\* ^(/?[a-zA-Z0-9-_.]+)*([#?].*)?$  : the part before the first # or ? is a
\* run of path characters in which every "/" is followed by a path
\* character; the part from the first # or ? on is any text without newline.
LocalLinkMatch(url) ==
    LET marks == {i \in 1..Len(url) : CharAt(url, i) \in {"#", "?"}}
        cut   == IF marks = {} THEN Len(url) + 1
                 ELSE CHOOSE i \in marks : \A j \in marks : i <= j
    IN  /\ \A i \in 1..(cut - 1) :
             \/ CharAt(url, i) \in PathChars
             \/ /\ CharAt(url, i) = "/"
                /\ i + 1 <= cut - 1
                /\ CharAt(url, i + 1) \in PathChars
        /\ \A i \in cut..Len(url) : CharAt(url, i) # "\n"

isSameDomain(url, baseUrl, domain) ==
    IF LocalLinkMatch(url) THEN TRUE
    ELSE IF HasPrefix(url, "//" \o domain) THEN TRUE
    ELSE IF HasPrefix(url, baseUrl) THEN TRUE
    ELSE IF url = "about:blank" THEN TRUE
    ELSE FALSE

(***************************************************************************)
(* Pattern matcher                                                         *)
(***************************************************************************)
\* end (exclusive) of the longest run of characters outside stop, from i
RunEnd(s, i, stop) ==
    CHOOSE r \in
        {IF stops = {} THEN (IF i > Len(s) THEN i ELSE Len(s) + 1)
         ELSE CHOOSE j \in stops : \A k \in stops : j <= k :
           stops \in {{j \in i..Len(s) : CharAt(s, j) \in stop}}} :
        TRUE

\* One match of  @import\W?(url)?\(?['"]?([^\)"']*)['"]?\)?  whose "@import"
\* starts at at.  Every piece after "@import" is optional or starred, so
\* the greedy first choice of each piece always completes the match.
\* Result: group 2 and the index just after the match.
ImportMatch(s, at) ==
    LET p0 == at + 7
        p1 == IF p0 <= Len(s) /\ CharAt(s, p0) \notin WordChars THEN p0 + 1 ELSE p0
        p2 == IF p1 + 2 <= Len(s) /\ SubSeq(s, p1, p1 + 2) = "url" THEN p1 + 3 ELSE p1
        p3 == IF p2 <= Len(s) /\ CharAt(s, p2) = "(" THEN p2 + 1 ELSE p2
        p4 == IF p3 <= Len(s) /\ CharAt(s, p3) \in {"'", "\""} THEN p3 + 1 ELSE p3
        p5 == RunEnd(s, p4, {")", "\"", "'"})
        p6 == IF p5 <= Len(s) /\ CharAt(s, p5) \in {"'", "\""} THEN p5 + 1 ELSE p5
        p7 == IF p6 <= Len(s) /\ CharAt(s, p6) = ")" THEN p6 + 1 ELSE p6
    IN  [sm |-> SubSeq(s, p4, p5 - 1), next |-> p7]

\* cssRegexp.FindAllStringSubmatch(text, -1), keeping m[2] of every match
RECURSIVE FindAllImports(_, _)
FindAllImports(s, from) ==
    LET at == IndexFrom(s, "@import", from)
    IN  IF at = 0 THEN <<>>
        ELSE LET m == ImportMatch(s, at)
             IN  <<m.sm>> \o FindAllImports(s, m.next)

\* cssRegexp.MatchString(text)
cssRegexpMatch(text) == IndexFrom(text, "@import", 1) # 0

(***************************************************************************)
(* Bounds of the model                                                     *)
(***************************************************************************)
\* value of the -d flag in the modelled runs (colly.MaxDepth of the depth flag)
MaxDepth == 2

\* most URLs the crawl visits in one run
MaxVisits == 3

\* most HTML element callbacks dispatched in one run
MaxEvents == 2

\* goroutines that run fetches at the same time
Workers == {1, 2}

(***************************************************************************)
(* The site: what the crawl driver can hand to the callbacks               *)
(***************************************************************************)
\* the last three do not parse: no scheme, a space in the host, a port
\* that is not a number
Seeds == {"http://example.com", ":example.com", "http://exa mple.com", "http://example.com:http"}

AHrefs == {"/about", "/print.css", "https://evil.net/"}

LinkHrefs == {"https://fonts.googleapis.com/css?family=Lato", "//cdn.example.net", "/style.css"}

LinkRels == {"stylesheet", "dns-prefetch", "preconnect"}

FontsText == "var f='//fonts.googleapis.com/css';"

BothText == "var f='//fonts.googleapis.com/css'; gtag('https://www.googletagmanager.com');"

GtmSrc == "https://www.googletagmanager.com/gtag/js"

ScriptElems ==
    { [src |-> "",                          text |-> FontsText],
      [src |-> "",                          text |-> BothText],
      [src |-> GtmSrc,                      text |-> FontsText],
      [src |-> "https://cdn.evil.net/a.js", text |-> ""],
      [src |-> "/app.js",                   text |-> FontsText] }

IFrameSrcs == {"https://www.googletagmanager.com/ns.html", "https://player.evil.net/v", "about:blank"}

CssTexts ==
    { "body{margin:0}",
      "@import url('https://fonts.googleapis.com/css?family=Roboto');",
      "@import \"a.css\"; @import url(//cdn.evil.net/b.css);",
      "@import url(https://fonts.gstatic.com/s/r.css); @import 'https://ajax.googleapis.com/ui.css';" }

StyleTexts == CssTexts \cup {""}

BucketNames ==
    {"googleFontsCss", "googleFontsStyle", "otherLinks", "otherScripts",
     "otherIFrames", "otherCss", "otherPreconnect", "otherStyle"}

FlagNames ==
    {"dnsPrefetch", "googleFontsLink", "googleFontsScript",
     "googleAnalyticsScriptSrc", "googleAnalyticsScript", "googleAnalyticsIFrame"}

(***************************************************************************)
(* checkUrl's setup: url.Parse(urlString), protocol, domain, baseUrl       *)
(***************************************************************************)
\* s up to (not including) the first character of stop, from index from
CutAt(s, from, stop) ==
    CHOOSE r \in {SubSeq(t, from, RunEnd(t, from, stop) - 1) : t \in {s}} : TRUE

\* the authority of an absolute or protocol-relative URL: the text between
\* "//" and the next "/", "?" or "#"; "" when the URL has no "//" authority
UrlAuthority(u) ==
    LET at == IF HasPrefix(u, "//") THEN 1
              ELSE LET i == IndexFrom(u, "://", 1) IN IF i = 0 THEN 0 ELSE i + 1
    IN  IF at = 0 THEN "" ELSE CutAt(u, at + 2, {"/", "?", "#"})

\* u.Hostname()
Hostname(u) == CutAt(UrlAuthority(u), 1, {":"})

\* u.Port()
Port(u) ==
    CHOOSE r \in
        {LET c == RunEnd(a, 1, {":"})
         IN  IF c > Len(a) THEN "" ELSE SubSeq(a, c + 1, Len(a)) :
           a \in {UrlAuthority(u)}} :
        TRUE

\* u.Path of the URL a visit requests: what follows the authority, or the
\* whole reference when it is relative, up to the first "?" or "#"
UrlPath(u) ==
    CHOOSE r \in
        {LET at == IF a = "" THEN 1 ELSE IndexFrom(u, a, 1) + Len(a)
         IN  CutAt(u, at, {"?", "#"}) :
           a \in {UrlAuthority(u)}} :
        TRUE

\* strings.Split(urlString, ":")[0], defaulted to https
Protocol(u) ==
    LET p == CutAt(u, 1, {":"})
    IN  IF p # "https" /\ p # "http" THEN "https" ELSE p

Domain(u) == Hostname(u)

BaseUrl(u) ==
    LET b == Protocol(u) \o "://" \o Domain(u)
    IN  IF Port(u) # "" THEN b \o ":" \o Port(u) ELSE b

(***************************************************************************)
(* State                                                                   *)
(***************************************************************************)
VARIABLES
    values,       \* flag.Args(): the arguments left after the flags
    verbose,      \* the -v flag
    stdout,       \* the lines the callbacks have printed, as a set
    probe,        \* one call of a function on its own: its arguments and its result
    urlString,    \* values[0], the seed
    phase,        \* "Idle", "Crawling" (between c.Visit and the return of c.Wait),
                  \* "Finalized", or "Aborted" (os.Exit(1) / log.Fatal)
    scanResult,   \* the fields of ScanResult other than mu
    mu,           \* scanResult.mu: 0 when unlocked, else the goroutine holding it
    queued,       \* visits accepted by the collector whose fetch has not begun
    visited,      \* URLs the collector has accepted (it refuses a revisit)
    g,            \* the fetch goroutines: position, page, callback arguments, locals
    events,       \* element callbacks dispatched so far
    requests,     \* history: OnRequest callbacks completed
    classified    \* history: <<bucket, value>> pairs handlers decided to record

vars == <<values, verbose, probe, stdout, urlString, phase, scanResult, mu, queued, visited, g, events, requests, classified>>

\* var scanResult ScanResult : the zero value
ZeroScanResult ==
    [ visits |-> 0,
      googleAnalyticsScriptSrc |-> FALSE, googleAnalyticsScript |-> FALSE,
      googleAnalyticsIFrame |-> FALSE, googleFontsLink |-> FALSE,
      googleFontsCss |-> <<>>, googleFontsStyle |-> <<>>,
      googleFontsScript |-> FALSE,
      otherLinks |-> <<>>, otherScripts |-> <<>>, otherIFrames |-> <<>>,
      otherCss |-> <<>>, otherPreconnect |-> <<>>, otherStyle |-> <<>>,
      dnsPrefetch |-> FALSE ]

NoEv == [kind |-> "none"]

\* what is set when the program starts and never assigned again
static == <<values, verbose, probe, urlString>>

\* no function is called on its own in a run of the program
NoProbe == [fn |-> "none"]

IdleG == [pc |-> "idle", depth |-> 0, hops |-> 0, path |-> "", ev |-> NoEv,
          todo |-> <<>>, bkt |-> "", sm |-> "", tmp |-> <<>>]

Init ==
    /\ values \in {<<>>} \cup {<<s>> : s \in Seeds}
    /\ urlString = IF values = <<>> THEN "" ELSE values[1]
    /\ verbose \in BOOLEAN
    /\ stdout = {}
    /\ probe = NoProbe
    /\ phase = "Idle"
    /\ scanResult = ZeroScanResult
    /\ mu = 0
    /\ queued = {}
    /\ visited = {}
    /\ g = [w \in Workers |-> IdleG]
    /\ events = 0
    /\ requests = 0
    /\ classified = {}

domain == Domain(urlString)

baseUrl == BaseUrl(urlString)

(***************************************************************************)
(* The handlers' classification.  Each handler is an if-chain that ends at *)
(* its first return; the outcome names the ScanResult field it writes.    *)
(***************************************************************************)
\* if !slices.Contains(list, v) { list = append(list, v) }
AppendUnique(list, v) == IF SliceContains(list, v) THEN list ELSE Append(list, v)

\* the write a handler makes for its outcome: a flag set, or a deduplicated append
Record(r, field, v) ==
    IF field \in FlagNames THEN [r EXCEPT ![field] = TRUE]
    ELSE IF field \in BucketNames THEN [r EXCEPT ![field] = AppendUnique(@, v)]
    ELSE r

\* a request callback that stores 1 where it should add 1
OnRequestHandler_Store(r) == [r EXCEPT !.visits = 1]

\* OnRequest: scanResult.visits += 1
OnRequestHandler(r) == [r EXCEPT !.visits = @ + 1]

\* OnHTML("link[href]")
LinkOutcome(href, rel) ==
    LET thirdParty == ~isSameDomain(href, baseUrl, domain)
    IN  IF rel = "dns-prefetch" THEN "dnsPrefetch"
        ELSE IF rel = "preconnect" /\ thirdParty THEN "otherPreconnect"
        ELSE IF Contains(href, "fonts.googleapis.com") \/ Contains(href, "fonts.gstatic.com")
             THEN "googleFontsLink"
        ELSE IF thirdParty THEN "otherLinks"
        ELSE "none"

\* a link handler without the return that ends the dns-prefetch branch
LinkHandler_PrefetchFallsThrough(r, href, rel) ==
    IF rel = "dns-prefetch"
    THEN Record([r EXCEPT !.dnsPrefetch = TRUE], LinkOutcome(href, ""), href)
    ELSE Record(r, LinkOutcome(href, rel), href)

\* a link handler without the return that ends the preconnect branch
LinkHandler_PreconnectFallsThrough(r, href, rel) ==
    IF LinkOutcome(href, rel) = "otherPreconnect"
    THEN Record(Record(r, "otherPreconnect", href), LinkOutcome(href, ""), href)
    ELSE Record(r, LinkOutcome(href, rel), href)

LinkHandler(r, href, rel) == Record(r, LinkOutcome(href, rel), href)

\* a script handler that looks for the fonts marker in the text first
ScriptOutcome_FontsFirst(src, text) ==
    IF src # "" /\ Contains(src, "googletagmanager.com") THEN "googleAnalyticsScriptSrc"
    ELSE IF src # "" /\ ~isSameDomain(src, baseUrl, domain) THEN "otherScripts"
    ELSE IF Contains(text, "fonts.googleapis.com") THEN "googleFontsScript"
    ELSE IF Contains(text, "googletagmanager.com") THEN "googleAnalyticsScript"
    ELSE "none"

\* OnHTML("script")
ScriptOutcome(src, text) ==
    IF src # "" /\ Contains(src, "googletagmanager.com") THEN "googleAnalyticsScriptSrc"
    ELSE IF src # "" /\ ~isSameDomain(src, baseUrl, domain) THEN "otherScripts"
    ELSE IF Contains(text, "googletagmanager.com") THEN "googleAnalyticsScript"
    ELSE IF Contains(text, "fonts.googleapis.com") THEN "googleFontsScript"
    ELSE "none"

\* a script handler whose src branches do not return: it goes on to the text
ScriptHandler_SrcFallsThrough(r, src, text) ==
    Record(Record(r, ScriptOutcome(src, text), src), ScriptOutcome("", text), src)

ScriptHandler(r, src, text) == Record(r, ScriptOutcome(src, text), src)

\* OnHTML("iframe[src]")
IFrameOutcome(src) ==
    IF src # "" /\ Contains(src, "googletagmanager.com") THEN "googleAnalyticsIFrame"
    ELSE IF src # "" /\ ~isSameDomain(src, baseUrl, domain) THEN "otherIFrames"
    ELSE "none"

IFrameHandler(r, src) == Record(r, IFrameOutcome(src), src)

\* OnHTML("style") and OnResponse: the bucket one @import target sm goes to
ImportOutcome(kind, sm) ==
    IF Contains(sm, "googleapis.com")
    THEN (IF kind = "style" THEN "googleFontsStyle" ELSE "googleFontsCss")
    ELSE IF ~isSameDomain(sm, baseUrl, domain)
    THEN (IF kind = "style" THEN "otherStyle" ELSE "otherCss")
    ELSE "none"

\* the history of what a handler decided to record
Noted(field, v) == IF field \in BucketNames THEN {<<field, v>>} ELSE {}

(***************************************************************************)
(* The callbacks as registered: what each writes to the ScanResult and     *)
(* what it prints.  With -v a handler prints one line per finding; without *)
(* it only the request callback prints, the progress line.                 *)
(***************************************************************************)
\* if *verbose { fmt.Printf(...) } : the line is named after the field written
VerboseLine(v, field) == IF v /\ field # "none" THEN {field} ELSE {}

\* printProgress(count)
Progress(count) == ToString(count) \o " pages visited"

\* the request callback with  scanResult.visits += 1  moved into the
\* branch that prints the progress line
OnRequestCallback_CountsWhenQuiet(r, v) ==
    LET r2 == IF ~v THEN OnRequestHandler(r) ELSE r
    IN  [r |-> r2, out |-> IF ~v THEN {Progress(r2.visits)} ELSE {"VISITING"}]

OnRequestCallback(r, v) ==
    LET r2 == OnRequestHandler(r)
    IN  [r |-> r2, out |-> IF ~v THEN {Progress(r2.visits)} ELSE {"VISITING"}]

OnLinkCallback(r, href, rel, v) ==
    [r |-> LinkHandler(r, href, rel), out |-> VerboseLine(v, LinkOutcome(href, rel))]

OnScriptCallback(r, src, text, v) ==
    [r |-> ScriptHandler(r, src, text), out |-> VerboseLine(v, ScriptOutcome(src, text))]

OnIFrameCallback(r, src, v) ==
    [r |-> IFrameHandler(r, src), out |-> VerboseLine(v, IFrameOutcome(src))]

(***************************************************************************)
(* main and checkUrl up to the crawl: the argument check and url.Parse     *)
(***************************************************************************)
\* the text of s between the first "//" and the end or the next "/"
AuthorityText(s) ==
    LET i == IndexFrom(s, "//", 1)
    IN  IF i = 0 THEN "" ELSE CutAt(s, i + 2, {"/"})

\* url.Parse(urlString) returns an error: no scheme before the first ":",
\* a space in the host, or a port that is not a number
ParseFails(u) ==
    \/ HasPrefix(u, ":")
    \/ Contains(AuthorityText(u), " ")
    \/ \E i \in 1..Len(Port(u)) : CharAt(Port(u), i) \notin Digits

\* len(values) == 0: usage and os.Exit(1);  err != nil: log.Fatal(err)
Abort ==
    /\ phase = "Idle"
    /\ values = <<>> \/ ParseFails(urlString)
    /\ phase' = "Aborted"
    /\ UNCHANGED <<static, stdout, scanResult, mu, queued, visited, g, events, requests, classified>>

(***************************************************************************)
(* The crawl driver: colly.NewCollector(AllowedDomains(domain),            *)
(* MaxDepth(depth), Async(true)).  Every accepted visit is fetched by a    *)
(* goroutine of its own, which runs that page's callbacks one after the    *)
(* other; callbacks of different pages interleave.                         *)
(***************************************************************************)
\* the host a reference found on a page of the site resolves to
ResolvedHost(href) == IF UrlAuthority(href) = "" THEN domain ELSE Hostname(href)

\* the collector's checks on a request of the given depth (the seed has depth 1)
VisitAccepted(href, depth) ==
    /\ ResolvedHost(href) = domain
    /\ depth <= MaxDepth
    /\ href \notin visited
    /\ Cardinality(visited) < MaxVisits

\* a request for href of the given depth is handed to the collector; hops
\* is the history of how many links were followed from the seed to get here
Scrape(href, depth, hops) ==
    IF VisitAccepted(href, depth)
    THEN /\ queued' = queued \cup {[path |-> UrlPath(href), depth |-> depth, hops |-> hops]}
         /\ visited' = visited \cup {href}
    ELSE UNCHANGED <<queued, visited>>

\* c.Visit(href): a request of depth 1, whatever page it is called from
Visit_FromCollector(href, w) == Scrape(href, 1, g[w].hops + 1)

\* e.Request.Visit(href) in a callback of the page goroutine w fetched:
\* a request one deeper than that page
Visit(href, w) == Scrape(href, g[w].depth + 1, g[w].hops + 1)

IsHtml(w) == ~HasSuffix(g[w].path, "css")

CanDispatch(w) == g[w].pc = "html" /\ IsHtml(w) /\ events < MaxEvents

\* u, _ := url.Parse(urlString): the crawl starts whatever the argument
Start_ErrIgnored ==
    /\ phase = "Idle"
    /\ phase' = "Crawling"
    /\ Scrape(urlString, 1, 0)
    /\ UNCHANGED <<static, stdout, scanResult, mu, g, events, requests, classified>>

\* checkUrl up to c.Visit(urlString): reached with an argument that parses
Start ==
    /\ phase = "Idle"
    /\ values # <<>>
    /\ ~ParseFails(urlString)
    /\ phase' = "Crawling"
    /\ Scrape(urlString, 1, 0)
    /\ UNCHANGED <<static, stdout, scanResult, mu, g, events, requests, classified>>

\* go c.fetch(...): a goroutine begins an accepted visit.  Goroutines have
\* no identity in the program, so the free slot of least number is taken.
Fetch(w) ==
    /\ g[w].pc = "idle"
    /\ \A v \in Workers : v < w => g[v].pc # "idle"
    /\ \E q \in queued :
         /\ queued' = queued \ {q}
         /\ g' = [g EXCEPT ![w] = [IdleG EXCEPT !.pc = "request", !.depth = q.depth,
                                                !.hops = q.hops, !.path = q.path]]
    /\ UNCHANGED <<static, stdout, phase, scanResult, mu, visited, events, requests, classified>>

\* OnRequest: scanResult.mu.Lock()
RequestLock(w) ==
    /\ g[w].pc = "request"
    /\ mu = 0
    /\ mu' = w
    /\ g' = [g EXCEPT ![w].pc = "request_locked"]
    /\ UNCHANGED <<static, stdout, phase, scanResult, queued, visited, events, requests, classified>>

\* OnRequest: the body
RequestBody(w) ==
    /\ g[w].pc = "request_locked"
    /\ LET c == OnRequestCallback(scanResult, verbose)
       IN  scanResult' = c.r /\ stdout' = stdout \cup c.out
    /\ requests' = requests + 1
    /\ g' = [g EXCEPT ![w].pc = "request_unlock"]
    /\ UNCHANGED <<static, phase, mu, queued, visited, events, classified>>

\* OnResponse up to the loop over the matches; no lock is taken
OnResponse(w) ==
    /\ g[w].pc = "response"
    /\ IF HasSuffix(g[w].path, "css")
       THEN \E body \in CssTexts :
              IF cssRegexpMatch(body)
              THEN g' = [g EXCEPT ![w].pc = "imports", ![w].ev = [kind |-> "response"],
                                  ![w].todo = FindAllImports(body, 1)]
              ELSE g' = [g EXCEPT ![w].pc = "html"]
       ELSE g' = [g EXCEPT ![w].pc = "html"]
    /\ UNCHANGED <<static, stdout, phase, scanResult, mu, queued, visited, events, requests, classified>>

\* OnHTML("a[href]")
OnA(w) ==
    /\ CanDispatch(w)
    /\ \E href \in AHrefs : Visit(href, w)
    /\ events' = events + 1
    /\ UNCHANGED <<static, stdout, phase, scanResult, mu, g, requests, classified>>

\* OnHTML("link[href]"): the handler is called with an element
OnLink(w) ==
    /\ CanDispatch(w)
    /\ \E href \in LinkHrefs, rel \in LinkRels :
         g' = [g EXCEPT ![w].pc = "link",
                        ![w].ev = [kind |-> "link", href |-> href, rel |-> rel]]
    /\ events' = events + 1
    /\ UNCHANGED <<static, stdout, phase, scanResult, mu, queued, visited, requests, classified>>

\* OnHTML("link[href]"): scanResult.mu.Lock()
LinkLock(w) ==
    /\ g[w].pc = "link"
    /\ mu = 0
    /\ mu' = w
    /\ g' = [g EXCEPT ![w].pc = "link_locked"]
    /\ UNCHANGED <<static, stdout, phase, scanResult, queued, visited, events, requests, classified>>

\* OnHTML("link[href]"): the body, up to its return
LinkBody(w) ==
    /\ g[w].pc = "link_locked"
    /\ Visit(g[w].ev.href, w)
    /\ LET c == OnLinkCallback(scanResult, g[w].ev.href, g[w].ev.rel, verbose)
       IN  scanResult' = c.r /\ stdout' = stdout \cup c.out
    /\ classified' = classified \cup Noted(LinkOutcome(g[w].ev.href, g[w].ev.rel), g[w].ev.href)
    /\ g' = [g EXCEPT ![w].pc = "link_unlock"]
    /\ UNCHANGED <<static, phase, mu, events, requests>>

\* OnHTML("script"): the handler is called with an element
OnScript(w) ==
    /\ CanDispatch(w)
    /\ \E e \in ScriptElems :
         g' = [g EXCEPT ![w].pc = "script",
                        ![w].ev = [kind |-> "script", src |-> e.src, text |-> e.text]]
    /\ events' = events + 1
    /\ UNCHANGED <<static, stdout, phase, scanResult, mu, queued, visited, requests, classified>>

\* OnHTML("script"): scanResult.mu.Lock()
ScriptLock(w) ==
    /\ g[w].pc = "script"
    /\ mu = 0
    /\ mu' = w
    /\ g' = [g EXCEPT ![w].pc = "script_locked"]
    /\ UNCHANGED <<static, stdout, phase, scanResult, queued, visited, events, requests, classified>>

\* OnHTML("script"): the body, up to its return
ScriptBody(w) ==
    /\ g[w].pc = "script_locked"
    /\ LET c == OnScriptCallback(scanResult, g[w].ev.src, g[w].ev.text, verbose)
       IN  scanResult' = c.r /\ stdout' = stdout \cup c.out
    /\ classified' = classified \cup Noted(ScriptOutcome(g[w].ev.src, g[w].ev.text), g[w].ev.src)
    /\ g' = [g EXCEPT ![w].pc = "script_unlock"]
    /\ UNCHANGED <<static, phase, mu, queued, visited, events, requests>>

\* OnHTML("iframe[src]"): the handler is called with an element
OnIFrame(w) ==
    /\ CanDispatch(w)
    /\ \E src \in IFrameSrcs :
         g' = [g EXCEPT ![w].pc = "iframe", ![w].ev = [kind |-> "iframe", src |-> src]]
    /\ events' = events + 1
    /\ UNCHANGED <<static, stdout, phase, scanResult, mu, queued, visited, requests, classified>>

\* OnHTML("iframe[src]"): scanResult.mu.Lock()
IFrameLock(w) ==
    /\ g[w].pc = "iframe"
    /\ mu = 0
    /\ mu' = w
    /\ g' = [g EXCEPT ![w].pc = "iframe_locked"]
    /\ UNCHANGED <<static, stdout, phase, scanResult, queued, visited, events, requests, classified>>

\* OnHTML("iframe[src]"): the body, up to its return
IFrameBody(w) ==
    /\ g[w].pc = "iframe_locked"
    /\ LET c == OnIFrameCallback(scanResult, g[w].ev.src, verbose)
       IN  scanResult' = c.r /\ stdout' = stdout \cup c.out
    /\ classified' = classified \cup Noted(IFrameOutcome(g[w].ev.src), g[w].ev.src)
    /\ g' = [g EXCEPT ![w].pc = "iframe_unlock"]
    /\ UNCHANGED <<static, phase, mu, queued, visited, events, requests>>

\* a handler that returned early from the dns-prefetch branch without
\* releasing the lock
Unlock_NotOnEarlyReturn(w) ==
    /\ g[w].pc \in {"request_unlock", "link_unlock", "script_unlock", "iframe_unlock"}
    /\ mu' = IF g[w].pc = "link_unlock" /\ g[w].ev.rel = "dns-prefetch" THEN mu ELSE 0
    /\ g' = [g EXCEPT ![w].pc = IF g[w].pc = "request_unlock" THEN "response" ELSE "html",
                      ![w].ev = NoEv]
    /\ UNCHANGED <<static, stdout, phase, scanResult, queued, visited, events, requests, classified>>

\* defer scanResult.mu.Unlock(): runs when the handler returns
Unlock(w) ==
    /\ g[w].pc \in {"request_unlock", "link_unlock", "script_unlock", "iframe_unlock"}
    /\ mu' = 0
    /\ g' = [g EXCEPT ![w].pc = IF g[w].pc = "request_unlock" THEN "response" ELSE "html",
                      ![w].ev = NoEv]
    /\ UNCHANGED <<static, stdout, phase, scanResult, queued, visited, events, requests, classified>>

\* OnHTML("style") up to the loop over the matches; no lock is taken
OnStyle(w) ==
    /\ CanDispatch(w)
    /\ \E text \in StyleTexts :
         IF text # "" /\ cssRegexpMatch(text)
         THEN g' = [g EXCEPT ![w].pc = "imports", ![w].ev = [kind |-> "style"],
                             ![w].todo = FindAllImports(text, 1)]
         ELSE g' = g
    /\ events' = events + 1
    /\ UNCHANGED <<static, stdout, phase, scanResult, mu, queued, visited, requests, classified>>

\* where the style / response handler goes after one match: the next
\* match, or back to the page once the matches are used up
AfterMatch(rest) == IF rest = <<>> THEN "html" ELSE "imports"

\* one turn of  for _, m := range result : classify sm and read the bucket
\* with slices.Contains; the append, if any, comes later and the verbose
\* line after it
ImportNext(w) ==
    /\ g[w].pc = "imports"
    /\ LET sm   == Head(g[w].todo)
           rest == Tail(g[w].todo)
           b    == ImportOutcome(g[w].ev.kind, sm)
       IN  /\ classified' = classified \cup Noted(b, sm)
           /\ IF b # "none" /\ ~SliceContains(scanResult[b], sm)
              THEN /\ g' = [g EXCEPT ![w].pc = "append", ![w].todo = rest,
                                     ![w].bkt = b, ![w].sm = sm]
                   /\ stdout' = stdout
              ELSE /\ g' = [g EXCEPT ![w].pc = AfterMatch(rest), ![w].todo = rest,
                                     ![w].ev = IF rest = <<>> THEN NoEv ELSE @]
                   /\ stdout' = stdout \cup VerboseLine(verbose, b)
    /\ UNCHANGED <<static, phase, scanResult, mu, queued, visited, events, requests>>

\* append(bucket, sm) reads the slice
AppendRead(w) ==
    /\ g[w].pc = "append"
    /\ g' = [g EXCEPT ![w].pc = "append_w", ![w].tmp = scanResult[g[w].bkt]]
    /\ UNCHANGED <<static, stdout, phase, scanResult, mu, queued, visited, events, requests, classified>>

\* bucket = <the slice append read, with sm after it>, then the verbose line
AppendWrite(w) ==
    /\ g[w].pc = "append_w"
    /\ scanResult' = [scanResult EXCEPT ![g[w].bkt] = Append(g[w].tmp, g[w].sm)]
    /\ stdout' = stdout \cup VerboseLine(verbose, g[w].bkt)
    /\ g' = [g EXCEPT ![w].pc = AfterMatch(g[w].todo), ![w].bkt = "", ![w].sm = "",
                      ![w].tmp = <<>>,
                      ![w].ev = IF g[w].todo = <<>> THEN NoEv ELSE @]
    /\ UNCHANGED <<static, phase, mu, queued, visited, events, requests, classified>>

\* the page's callbacks are over: the fetch goroutine ends
Finish(w) ==
    /\ g[w].pc = "html"
    /\ g' = [g EXCEPT ![w] = IdleG]
    /\ UNCHANGED <<static, stdout, phase, scanResult, mu, queued, visited, events, requests, classified>>

\* printResult(scanResult) right after c.Visit, with no c.Wait() between
Wait_NoBarrier ==
    /\ phase = "Crawling"
    /\ phase' = "Finalized"
    /\ UNCHANGED <<static, stdout, scanResult, mu, queued, visited, g, events, requests, classified>>

\* c.Wait() returns: no fetch is running or queued; printResult follows
Wait ==
    /\ phase = "Crawling"
    /\ queued = {}
    /\ \A w \in Workers : g[w].pc = "idle"
    /\ phase' = "Finalized"
    /\ UNCHANGED <<static, stdout, scanResult, mu, queued, visited, g, events, requests, classified>>

\* one step of the fetch goroutine w
Step(w) ==
    \/ Fetch(w)
    \/ RequestLock(w)
    \/ RequestBody(w)
    \/ OnResponse(w)
    \/ OnA(w)
    \/ OnLink(w)
    \/ LinkLock(w)
    \/ LinkBody(w)
    \/ OnScript(w)
    \/ ScriptLock(w)
    \/ ScriptBody(w)
    \/ OnIFrame(w)
    \/ IFrameLock(w)
    \/ IFrameBody(w)
    \/ Unlock(w)
    \/ OnStyle(w)
    \/ ImportNext(w)
    \/ AppendRead(w)
    \/ AppendWrite(w)
    \/ Finish(w)

Next ==
    \/ Abort
    \/ Start
    \/ Wait
    \/ \E w \in Workers : Step(w)

Spec == Init /\ [][Next]_vars

(***************************************************************************)
(* isSameDomain on its own: one call with a reference and the baseUrl and  *)
(* domain checkUrl derives from a seed                                     *)
(***************************************************************************)
\* the program as main finds it, with nothing crawled yet
Quiet ==
    /\ verbose = FALSE
    /\ stdout = {}
    /\ phase = "Idle"
    /\ scanResult = ZeroScanResult
    /\ mu = 0
    /\ queued = {}
    /\ visited = {}
    /\ g = [w \in Workers |-> IdleG]
    /\ events = 0
    /\ requests = 0
    /\ classified = {}

OriginSeeds == {"http://example.com", "https://example.com:8080"}

RefSchemes == {"//", "http://", "https://"}

RefHosts == {"example.com", "example.com:8080", "example.com.evil.net", "cdn.example.net", "evil.net"}

RefTails == {"", "/", "/a.css", "?x=1"}

\* the protocol-relative and absolute references handed to isSameDomain
References == {sc \o h \o t : sc \in RefSchemes, h \in RefHosts, t \in RefTails}

InitOrigin ==
    /\ Quiet
    /\ urlString \in OriginSeeds
    /\ values = <<urlString>>
    /\ probe \in {[fn |-> "isSameDomain", url |-> u, done |-> FALSE, ret |-> FALSE] :
                    u \in References}

\* thirdParty := !isSameDomain(url, baseUrl, domain)
CallIsSameDomain ==
    /\ probe.fn = "isSameDomain"
    /\ ~probe.done
    /\ probe' = [probe EXCEPT !.done = TRUE, !.ret = isSameDomain(probe.url, baseUrl, domain)]
    /\ UNCHANGED <<values, verbose, urlString, stdout, phase, scanResult, mu, queued,
                   visited, g, events, requests, classified>>

NextOrigin == CallIsSameDomain

SpecOrigin == InitOrigin /\ [][NextOrigin]_vars

\* C11: isSameDomain tells hosts apart: a reference that is "//" and then
\* the seed's host is same-origin, and a protocol-relative or absolute
\* reference to any other host is not, also when that host's name or the
\* reference begins with the seed's host or base origin.
C11_HostsDistinguished ==
    (probe.fn = "isSameDomain" /\ probe.done) =>
        /\ (HasPrefix(probe.url, "//") /\ Hostname(probe.url) = domain) => probe.ret
        /\ (UrlAuthority(probe.url) # "" /\ Hostname(probe.url) # domain) => ~probe.ret

(***************************************************************************)
(* cssRegexp on its own: FindAllStringSubmatch on a stylesheet text made   *)
(* of @import rules, and the group 2 of every match                        *)
(***************************************************************************)
\* most @import rules in one text
MaxImports == 2

\* the white space between "@import" and the target
ImportSpaces == {" ", "  "}

ImportForms == {"dq", "sq", "url", "urldq"}

ImportTargets == {"a.css", "https://fonts.googleapis.com/css?family=Lato"}

\* one @import rule as written in a stylesheet
ImportRule(part) ==
    "@import" \o part.ws \o
        (CASE part.form = "dq"    -> "\"" \o part.target \o "\""
           [] part.form = "sq"    -> "'" \o part.target \o "'"
           [] part.form = "url"   -> "url(" \o part.target \o ")"
           [] part.form = "urldq" -> "url(\"" \o part.target \o "\")") \o ";"

RECURSIVE Stylesheet(_)
\* the rules one after the other, then an ordinary rule
Stylesheet(parts) ==
    IF parts = <<>> THEN "body{margin:0}"
    ELSE ImportRule(Head(parts)) \o " " \o Stylesheet(Tail(parts))

ImportParts == [ws : ImportSpaces, form : ImportForms, target : ImportTargets]

InitImports ==
    /\ Quiet
    /\ urlString \in OriginSeeds
    /\ values = <<urlString>>
    /\ \E n \in 0..MaxImports : \E parts \in [1..n -> ImportParts] :
         probe = [fn |-> "cssRegexp", parts |-> parts, text |-> Stylesheet(parts),
                  done |-> FALSE, ret |-> <<>>]

\* if cssRegexp.MatchString(text) { result := cssRegexp.FindAllStringSubmatch(text, -1);
\* for _, m := range result { sm := m[2] ...
CallFindAllStringSubmatch ==
    /\ probe.fn = "cssRegexp"
    /\ ~probe.done
    /\ probe' = [probe EXCEPT !.done = TRUE,
                              !.ret = IF cssRegexpMatch(probe.text)
                                      THEN FindAllImports(probe.text, 1) ELSE <<>>]
    /\ UNCHANGED <<values, verbose, urlString, stdout, phase, scanResult, mu, queued,
                   visited, g, events, requests, classified>>

NextImports == CallFindAllStringSubmatch

SpecImports == InitImports /\ [][NextImports]_vars

\* C12: the import extraction yields, for every @import rule of the text
\* and in source order, exactly the rule's target (without white space,
\* quotes or parentheses), for no, one or several rules and whatever the
\* white space between "@import" and the target.
C12_TargetsInOrder ==
    (probe.fn = "cssRegexp" /\ probe.done) =>
        probe.ret = [i \in 1..Len(probe.parts) |-> probe.parts[i].target]

(***************************************************************************)
(* Properties                                                              *)
(***************************************************************************)
\* a handler is between its first read of a ScanResult field and its last
\* write to it: the body of a locking handler, or the check-then-append of
\* the style and response handlers
InUpdate(w) ==
    g[w].pc \in {"request_locked", "link_locked", "script_locked", "iframe_locked",
                 "append", "append_w"}

IsPrefix(a, b) == Len(a) <= Len(b) /\ SubSeq(b, 1, Len(a)) = a

\* C1: in every reachable state at most one handler is inside a
\* read-modify-write of the ScanResult, because each one holds the mutex.
C1_OneHandlerInUpdate == Cardinality({w \in Workers : InUpdate(w)}) <= 1

\* C2: in every reachable state no finding set holds a value twice.
C2_NoDuplicates ==
    \A b \in BucketNames :
        \A i, j \in 1..Len(scanResult[b]) :
            i # j => scanResult[b][i] # scanResult[b][j]

\* C3: once the scan is Finalized, every value a handler decided to record
\* in a finding set is in that set.
C3_NoFindingLost ==
    phase = "Finalized" =>
        \A p \in classified : SliceContains(scanResult[p[1]], p[2])

\* C4: every step leaves each finding set's old contents as a prefix of its
\* new contents.
C4_AppendOnly ==
    [][\A b \in BucketNames : IsPrefix(scanResult[b], scanResult'[b])]_vars

\* C5: in every step no flag goes from true to false, and the visit counter
\* does not decrease and grows by one exactly when a request callback runs;
\* so it always equals the number of request callbacks run.
C5_ScalarsMonotonic ==
    [][/\ \A f \in FlagNames : scanResult[f] => scanResult'[f]
       /\ scanResult'.visits >= scanResult.visits
       /\ scanResult'.visits - scanResult.visits = requests' - requests
       /\ scanResult'.visits = requests'
       /\ requests' - requests =
            IF \E w \in Workers : g[w].pc = "request_locked" /\ g'[w].pc = "request_unlock"
            THEN 1 ELSE 0]_vars

\* C5: two pages were requested at the same time, a flag was set before the
\* second request callback ran, and the scan is over.
C5_Witness ==
    /\ phase = "Finalized"
    /\ scanResult.visits >= 2
    /\ requests = scanResult.visits
    /\ \E f \in FlagNames : scanResult[f]

\* the step in which goroutine w runs the body of the named locking handler
BodyStep(w, kind) == g[w].pc = kind \o "_locked" /\ g'[w].pc = kind \o "_unlock"

\* the Google Fonts markers for links and CSS, the Google Analytics marker
HasFontsMarker(v) == Contains(v, "fonts.googleapis.com") \/ Contains(v, "fonts.gstatic.com")

HasAnalyticsMarker(v) == Contains(v, "googletagmanager.com")

\* the script handler goes on to the element's text: no src, or a src that
\* is neither Google Analytics nor third-party
TextExamined(src) ==
    src = "" \/ (~HasAnalyticsMarker(src) /\ isSameDomain(src, baseUrl, domain))

\* C6 as stated: an inline script whose text contains the Google Fonts
\* marker sets googleFontsScript, also when the text contains the Google
\* Analytics marker too.
C6_FontsBeforeAnalytics ==
    [][\A w \in Workers :
         (BodyStep(w, "script") /\ g[w].ev.src = ""
            /\ Contains(g[w].ev.text, "fonts.googleapis.com"))
         => scanResult'.googleFontsScript]_vars

\* C6 amended: a link that is neither dns-prefetch nor a third-party
\* preconnect and whose href has a Google Fonts marker sets googleFontsLink
\* and nothing else; a script whose text is examined sets only
\* googleAnalyticsScript when the text contains googletagmanager.com
\* (whether or not it contains fonts.googleapis.com), only
\* googleFontsScript when it contains fonts.googleapis.com alone, and
\* nothing otherwise.
C6_AnalyticsBeforeFonts ==
    [][\A w \in Workers :
         /\ (BodyStep(w, "link") /\ g[w].ev.rel # "dns-prefetch"
               /\ ~(g[w].ev.rel = "preconnect" /\ ~isSameDomain(g[w].ev.href, baseUrl, domain))
               /\ HasFontsMarker(g[w].ev.href))
            => scanResult' = [scanResult EXCEPT !.googleFontsLink = TRUE]
         /\ (BodyStep(w, "script") /\ TextExamined(g[w].ev.src))
            => scanResult' =
                 IF HasAnalyticsMarker(g[w].ev.text)
                 THEN [scanResult EXCEPT !.googleAnalyticsScript = TRUE]
                 ELSE IF Contains(g[w].ev.text, "fonts.googleapis.com")
                 THEN [scanResult EXCEPT !.googleFontsScript = TRUE]
                 ELSE scanResult]_vars

\* C6: the handler of an inline script whose text has both markers has run
\* its body: googleAnalyticsScript is set and googleFontsScript is not.
C6_Witness ==
    \E w \in Workers :
        /\ g[w].pc = "script_unlock"
        /\ g[w].ev.src = ""
        /\ Contains(g[w].ev.text, "fonts.googleapis.com")
        /\ HasAnalyticsMarker(g[w].ev.text)
        /\ scanResult.googleAnalyticsScript
        /\ ~scanResult.googleFontsScript

\* C7: a value is in googleFontsCss or googleFontsStyle only if it contains
\* fonts.googleapis.com or fonts.gstatic.com, and no value containing one of
\* them is in otherCss or otherStyle.
C7_FontsImportsByMarker ==
    /\ \A b \in {"googleFontsCss", "googleFontsStyle"} :
         \A i \in 1..Len(scanResult[b]) : HasFontsMarker(scanResult[b][i])
    /\ \A b \in {"otherCss", "otherStyle"} :
         \A i \in 1..Len(scanResult[b]) : ~HasFontsMarker(scanResult[b][i])

\* C8: the body of the link handler for a rel=dns-prefetch element sets
\* dnsPrefetch and changes no other field of the ScanResult.
C8_DnsPrefetchOnly ==
    [][\A w \in Workers :
         (BodyStep(w, "link") /\ g[w].ev.rel = "dns-prefetch")
         => scanResult' = [scanResult EXCEPT !.dnsPrefetch = TRUE]]_vars

\* C8: the handler has run its body for a dns-prefetch link whose href is
\* third-party and has a Google Fonts marker: dnsPrefetch is set, the href
\* is in no set and googleFontsLink is not set.
C8_Witness ==
    \E w \in Workers :
        /\ g[w].pc = "link_unlock"
        /\ g[w].ev.rel = "dns-prefetch"
        /\ ~isSameDomain(g[w].ev.href, baseUrl, domain)
        /\ HasFontsMarker(g[w].ev.href)
        /\ scanResult.dnsPrefetch
        /\ ~scanResult.googleFontsLink
        /\ \A b \in BucketNames : ~SliceContains(scanResult[b], g[w].ev.href)

\* C9: the body of the link handler for a rel=preconnect element appends a
\* third-party href to otherPreconnect unless it is there, changing no other
\* field, and leaves otherPreconnect alone when the href is same-origin.
C9_PreconnectOnly ==
    [][\A w \in Workers :
         (BodyStep(w, "link") /\ g[w].ev.rel = "preconnect")
         => IF ~isSameDomain(g[w].ev.href, baseUrl, domain)
            THEN scanResult' =
                   [scanResult EXCEPT !.otherPreconnect =
                      IF \E i \in 1..Len(@) : @[i] = g[w].ev.href
                      THEN @ ELSE @ \o <<g[w].ev.href>>]
            ELSE scanResult'.otherPreconnect = scanResult.otherPreconnect]_vars

\* C9: the handler has run its body for a preconnect link whose
\* third-party href has a Google Fonts marker: the href is in
\* otherPreconnect, not in otherLinks, and googleFontsLink is not set.
C9_Witness ==
    \E w \in Workers :
        /\ g[w].pc = "link_unlock"
        /\ g[w].ev.rel = "preconnect"
        /\ HasFontsMarker(g[w].ev.href)
        /\ ~isSameDomain(g[w].ev.href, baseUrl, domain)
        /\ SliceContains(scanResult.otherPreconnect, g[w].ev.href)
        /\ ~SliceContains(scanResult.otherLinks, g[w].ev.href)
        /\ ~scanResult.googleFontsLink

\* C10: every value in otherLinks, otherScripts, otherIFrames, otherCss and
\* otherStyle is third-party for the origin resolver and has no marker of a
\* provider known for its element kind.
C10_OtherIsThirdPartyNonProvider ==
    /\ \A b \in {"otherLinks", "otherScripts", "otherIFrames", "otherCss", "otherStyle"} :
         \A i \in 1..Len(scanResult[b]) : ~isSameDomain(scanResult[b][i], baseUrl, domain)
    /\ \A b \in {"otherLinks", "otherCss", "otherStyle"} :
         \A i \in 1..Len(scanResult[b]) : ~HasFontsMarker(scanResult[b][i])
    /\ \A b \in {"otherScripts", "otherIFrames"} :
         \A i \in 1..Len(scanResult[b]) : ~HasAnalyticsMarker(scanResult[b][i])

\* C13: the scan goes Idle -> Crawling -> Finalized (or Idle -> Aborted) and
\* nowhere else; it becomes Finalized, where the Report is rendered, only
\* when no fetch is queued, no callback is running and the mutex is free;
\* once Finalized it stays Finalized and no Report field changes.
C13_Lifecycle ==
    [][/\ phase' # phase =>
            <<phase, phase'>> \in {<<"Idle", "Crawling">>, <<"Crawling", "Finalized">>,
                                   <<"Idle", "Aborted">>}
       /\ phase' = "Finalized" =>
            (queued' = {} /\ mu' = 0 /\ \A w \in Workers : g'[w].pc = "idle")
       /\ phase = "Finalized" => (phase' = "Finalized" /\ scanResult' = scanResult)]_vars

\* C13: the scan is Finalized after a crawl that visited two pages and
\* recorded a third-party link.
C13_Witness ==
    /\ phase = "Finalized"
    /\ scanResult.visits >= 2
    /\ scanResult.otherLinks # <<>>
    /\ \A w \in Workers : g[w].pc = "idle"

\* C14: the -v flag never changes and no handler's write to the ScanResult
\* depends on it: what the request, link, script and iframe handlers write
\* in a step is what they would have written with the flag the other way
\* round, so runs that differ in the flag only build the same Report.
C14_VerboseOnlyPrints ==
    [][/\ verbose' = verbose
       /\ \A w \in Workers :
            /\ BodyStep(w, "request") =>
                 scanResult' = OnRequestCallback(scanResult, ~verbose).r
            /\ BodyStep(w, "link") =>
                 scanResult' = OnLinkCallback(scanResult, g[w].ev.href, g[w].ev.rel, ~verbose).r
            /\ BodyStep(w, "script") =>
                 scanResult' = OnScriptCallback(scanResult, g[w].ev.src, g[w].ev.text, ~verbose).r
            /\ BodyStep(w, "iframe") =>
                 scanResult' = OnIFrameCallback(scanResult, g[w].ev.src, ~verbose).r]_vars

\* C14: a verbose run has printed the lines of a visit and of a third-party
\* link it recorded.
C14_Witness ==
    /\ verbose
    /\ {"VISITING", "otherLinks"} \subseteq stdout
    /\ scanResult.visits >= 1
    /\ scanResult.otherLinks # <<>>

C16_AbortBeforeCrawl ==
    (values = <<>> \/ ParseFails(urlString)) =>
        /\ phase \in {"Idle", "Aborted"}
        /\ queued = {} /\ visited = {} /\ requests = 0 /\ events = 0
        /\ \A w \in Workers : g[w].pc = "idle"
        /\ scanResult = ZeroScanResult
        /\ stdout = {}

\* C16: the scan of a seed that does not parse has been aborted.
C16_Witness ==
    /\ phase = "Aborted"
    /\ values # <<>>
    /\ ParseFails(urlString)

\* C17: the mutex is never held across a call into the collector: no step
\* of the goroutine that holds it hands a visit request to the collector.
C17_NoVisitUnderLock ==
    [][\A w \in Workers :
         (mu = w /\ g'[w] # g[w]) => UNCHANGED <<queued, visited>>]_vars

(***************************************************************************)
(* Fair scheduling: as long as main or some goroutine can take a step, one *)
(* of them does.  The Go scheduler runs every runnable goroutine and       *)
(* Unlock() wakes a goroutine blocked in Lock(), which gives this and more.*)
(***************************************************************************)
Fairness == WF_vars(Next)

FairSpec == Spec /\ Fairness

\* the scan is over: rendered or aborted, no fetch queued, no callback
\* running or waiting, the mutex free
Done ==
    /\ phase \in {"Finalized", "Aborted"}
    /\ queued = {}
    /\ mu = 0
    /\ \A w \in Workers : g[w].pc = "idle"

\* C18: under fair scheduling the scan gets from every state it can be in
\* to its end, Finalized when the seed parses.  A callback still waiting in
\* Lock(), or one still holding the mutex, keeps its goroutine from ending
\* and c.Wait() from returning, so each waiter (the request callback of a
\* visit the link handler asked for while holding the mutex included) gets
\* the mutex and each holder releases it.
C18_LockProgressAndTermination ==
    (phase \in {"Idle", "Crawling"}) ~>
        (Done /\ (phase = "Aborted" <=> (values = <<>> \/ ParseFails(urlString))))

\* C18: the request callback of a page is waiting for the mutex while the
\* link handler that asked for the visit of that page still holds it.
C18_Witness ==
    \E w, v \in Workers :
        /\ g[w].pc = "request"
        /\ mu = v
        /\ g[v].pc = "link_unlock"
        /\ g[w].path = UrlPath(g[v].ev.href)
        /\ g[w].hops = g[v].hops + 1

\* C19: the Finalized Report is the same for every order of the callbacks
\* of a run: visits is the number of request callbacks, and each finding
\* set has exactly the values the handlers decided to record in it,
\* whatever the interleaving.
C19_ReportOfEvents ==
    phase = "Finalized" =>
        /\ scanResult.visits = requests
        /\ \A b \in BucketNames :
             {scanResult[b][i] : i \in 1..Len(scanResult[b])} =
                 {p[2] : p \in {q \in classified : q[1] = b}}

\* the finding fields a step writes a new value to
Written == {f \in FlagNames \cup BucketNames : scanResult'[f] # scanResult[f]}

\* C20: the body of the link, script and iframe handler writes at most one
\* finding field for its element, by setting a flag or appending one value,
\* and leaves the visit counter alone; a script whose src is Google
\* Analytics or third-party records that and its text is not looked at; a
\* script with no src or a same-origin src has its text searched for the
\* provider markers.
C20_OneFindingPerElement ==
    [][\A w \in Workers :
         /\ (BodyStep(w, "link") \/ BodyStep(w, "script") \/ BodyStep(w, "iframe")) =>
              /\ Cardinality(Written) <= 1
              /\ scanResult'.visits = scanResult.visits
              /\ \A b \in BucketNames : Len(scanResult'[b]) <= Len(scanResult[b]) + 1
         /\ BodyStep(w, "script") =>
              IF TextExamined(g[w].ev.src)
              THEN /\ HasAnalyticsMarker(g[w].ev.text) => scanResult'.googleAnalyticsScript
                   /\ (~HasAnalyticsMarker(g[w].ev.text)
                         /\ Contains(g[w].ev.text, "fonts.googleapis.com")) =>
                        scanResult'.googleFontsScript
              ELSE /\ Written \subseteq {"googleAnalyticsScriptSrc", "otherScripts"}
                   /\ HasAnalyticsMarker(g[w].ev.src) => scanResult'.googleAnalyticsScriptSrc
                   /\ ~HasAnalyticsMarker(g[w].ev.src) =>
                        SliceContains(scanResult'.otherScripts, g[w].ev.src)]_vars

\* C20: the handler of a script with a Google Analytics src and a text with
\* the Google Fonts marker has run: only googleAnalyticsScriptSrc is set.
C20_Witness ==
    \E w \in Workers :
        /\ g[w].pc = "script_unlock"
        /\ HasAnalyticsMarker(g[w].ev.src)
        /\ Contains(g[w].ev.text, "fonts.googleapis.com")
        /\ scanResult.googleAnalyticsScriptSrc
        /\ ~scanResult.googleFontsScript
        /\ ~scanResult.googleAnalyticsScript

====
